---- MODULE Spec2Model ----
(***************************************************************************)
(* Model of two leaf components of the desktop client:                     *)
(*   - app/src/ui/sidebar.tsx : the resizable Sidebar, which persists its  *)
(*     width to localStorage through a ThrottledScheduler(300);            *)
(*   - app/src/lib/git/pull.ts: pull(), which runs `git pull` and turns    *)
(*     the lines of the subprocess's stderr into progress events.          *)
(* ThrottledScheduler (./lib/throttled-scheduler) and PullProgressParser   *)
(* (../progress) are imported by these files; they are modelled from       *)
(* their documented contract.                                              *)
(***************************************************************************)
EXTENDS Integers, Sequences, FiniteSets, TLC

VARIABLES
    \* ---- Sidebar (sidebar.tsx) ----
    constructed,   \* has the constructor body (line 58-61) run
    storage,       \* localStorage entry under sidebarWidthConfigKey
    stateWidth,    \* this.state.width
    startX,        \* this.startX
    startWidth,    \* this.startWidth
    listening,     \* the event listeners registered on document
    timers,        \* the pending timeouts (the scheduler keeps at most one)
    now,           \* wall clock, in ms
    queueLog,      \* history: every queue() call, in call order
    execLog,       \* history: every queued action that ran
    effectLog,     \* history: every setItem/removeItem on the key
    readLog,       \* history: every getItem on the key
    lastEvent,     \* history: the last Sidebar step taken
    lastNewWidth,  \* history: newWidth (before clamping) if that step was a drag move
    dragging,      \* history: a drag start was handled and no drag stop since
    \* ---- pull (pull.ts) ----
    pc,            \* position of the pull() call
    hasCallback,   \* was a progressCallback passed
    remote,        \* the remote argument
    stderrLines,   \* lines the subprocess wrote to stderr so far
    events,        \* progressCallback invocations, in order
    handlerLog,    \* history: per stderr line, how many events it added
    gitCalls,      \* git() invocations: their args
    outcome,       \* how the promise settled
    \* ---- PullProgressParser on its own ----
    parseInput,    \* the line handed to parse, as the pieces it is made of
    parseOutput    \* the record parse returned for it

sidebarVars == <<constructed, storage, stateWidth, startX, startWidth, listening,
                 timers, now, queueLog, execLog, effectLog, readLog, lastEvent,
                 lastNewWidth, dragging>>
pullVars == <<pc, hasCallback, remote, stderrLines, events, handlerLog, gitCalls, outcome>>
parserVars == <<parseInput, parseOutput>>
vars == <<sidebarVars, pullVars, parserVars>>

----------------------------------------------------------------------------
(* Bounds of the model *)

\* clock ticks explored per run
MaxTicks == 4
\* queue() calls explored per run
MaxQueueCalls == 3
\* stderr lines the subprocess writes per pull
MaxLines == 3

----------------------------------------------------------------------------
(* JavaScript values *)

Num(n) == [kind |-> "number", n |-> n]
NaN == [kind |-> "NaN", n |-> 0]
Undefined == [kind |-> "undefined", n |-> 0]
Null == [kind |-> "null", n |-> 0]

\* ToBoolean: undefined, null, NaN and 0 are falsy
Truthy(v) == v.kind = "number" /\ v.n # 0

\* a localStorage entry: absent (getItem gives null) or a string
Absent == [kind |-> "null", s |-> ""]
Str(chars) == [kind |-> "string", s |-> chars]

\* strings are sequences of characters; CharAt is 1-based
CharAt(str, i) == SubSeq(str, i, i)
startsWith(str, prefix) ==
    /\ Len(str) >= Len(prefix)
    /\ SubSeq(str, 1, Len(prefix)) = prefix

DigitChars == <<"0", "1", "2", "3", "4", "5", "6", "7", "8", "9">>
IsDigit(c) == \E d \in 0..9 : DigitChars[d + 1] = c
DigitValue(c) == CHOOSE d \in 0..9 : DigitChars[d + 1] = c

\* Number.prototype.toString for an integer: its decimal digits
RECURSIVE Decimal(_)
Decimal(n) ==
    IF n < 10 THEN DigitChars[n + 1]
    ELSE Decimal(n \div 10) \o DigitChars[(n % 10) + 1]

NumberToString(n) == IF n < 0 THEN "-" \o Decimal(0 - n) ELSE Decimal(n)

\* the number of leading digits of str from position i on
RECURSIVE DigitRun(_, _)
DigitRun(str, i) ==
    IF i > Len(str) \/ ~IsDigit(CharAt(str, i)) THEN 0
    ELSE 1 + DigitRun(str, i + 1)

\* the value of the decimal digits str[i..j]
RECURSIVE DigitsValue(_, _, _)
DigitsValue(str, i, j) ==
    IF j < i THEN 0
    ELSE DigitsValue(str, i, j - 1) * 10 + DigitValue(CharAt(str, j))

\* parseInt(v, 10): an optional sign and the leading digits; null is converted
\* to "null", which has none, and gives NaN
ParseInt(v) ==
    IF v.kind = "null" THEN NaN
    ELSE LET neg == Len(v.s) > 0 /\ CharAt(v.s, 1) = "-"
             first == IF neg THEN 2 ELSE 1
             run == DigitRun(v.s, first)
             magnitude == DigitsValue(v.s, first, first + run - 1)
         IN  IF run = 0 THEN NaN
             ELSE Num(IF neg THEN 0 - magnitude ELSE magnitude)

Max(a, b) == IF a >= b THEN a ELSE b
Min(a, b) == IF a <= b THEN a ELSE b

----------------------------------------------------------------------------
(* Sidebar: props and inputs *)

\* Sidebar.defaultProps
defaultWidth == 250
minimumWidth == 150
maximumWidth == 350

\* the defaults the doc comments of ISidebarProps state (@default)
documentedMaximumWidth == 400
documentedMinimumWidth == 150

\* new ThrottledScheduler(300)
configWriteDelay == 300

\* mouse positions (clientX) the events carry
ClientXs == {0, 100}
\* the clock advances in steps of this many ms
TickSteps == {150}
\* what an earlier run of the application may have left under the key
InitialStorage == {Absent, Str(NumberToString(200)), Str(NumberToString(350))}

----------------------------------------------------------------------------
(* ThrottledScheduler: a one-shot timer that each queue() call replaces *)

\* queue(action): cancel the scheduler's pending timeout and arm a new one,
\* `delay` ms from now
queue(action) ==
    /\ timers' = {[due |-> now + configWriteDelay, id |-> Len(queueLog) + 1,
                   action |-> action]}
    /\ queueLog' = Append(queueLog, [at |-> now, op |-> action.op])

\* variant: the removal closure misses the key and leaves the entry as it is
RunActionRemovalMisses(action) ==
    IF action.op = "setItem" THEN Str(NumberToString(action.arg)) ELSE storage

\* the storage entry after the queued closure ran
RunAction(action) ==
    IF action.op = "setItem" THEN Str(NumberToString(action.arg)) ELSE Absent

\* a timeout expires: its handle is cleared and the queued closure runs
TimerFire ==
    /\ \E t \in timers :
          /\ now >= t.due
          /\ storage' = RunAction(t.action)
          /\ effectLog' = Append(effectLog, [by |-> "timer", at |-> now,
                                             calls |-> Len(queueLog)])
          /\ execLog' = Append(execLog, [id |-> t.id, at |-> now])
          /\ timers' = timers \ {t}
    /\ UNCHANGED <<constructed, stateWidth, startX, startWidth, listening, now,
                   queueLog, readLog, lastEvent, lastNewWidth, dragging>>

\* time passes; a due timeout may run late, never early
Tick ==
    /\ \E dt \in TickSteps :
          /\ now + dt <= MaxTicks * dt
          /\ now' = now + dt
    /\ UNCHANGED <<constructed, storage, stateWidth, startX, startWidth, listening,
                   timers, queueLog, execLog, effectLog, readLog, lastEvent,
                   lastNewWidth, dragging>>

----------------------------------------------------------------------------
(* Sidebar methods *)

getPersistedWidth == ParseInt(storage)

\* variant: every call schedules on a scheduler of its own, so the timeout of
\* an earlier call is not cancelled
setPersistedWidthOwnScheduler(newWidth) ==
    /\ timers' = timers \cup {[due |-> now + configWriteDelay, id |-> Len(queueLog) + 1,
                                action |-> [op |-> "setItem", arg |-> newWidth]]}
    /\ queueLog' = Append(queueLog, [at |-> now, op |-> "setItem"])
    /\ UNCHANGED <<storage, effectLog>>

\* variant: the width is also written at once, not only by the queued closure
setPersistedWidthEager(newWidth) ==
    /\ queue([op |-> "setItem", arg |-> newWidth])
    /\ storage' = Str(NumberToString(newWidth))
    /\ effectLog' = Append(effectLog, [by |-> "handler", at |-> now,
                                       calls |-> Len(queueLog) + 1])

setPersistedWidth(newWidth) ==
    /\ queue([op |-> "setItem", arg |-> newWidth])
    /\ UNCHANGED <<storage, effectLog>>

\* variant: the reset stores the default width instead of removing the key
clearPersistedWidthAsDefault ==
    /\ queue([op |-> "setItem", arg |-> defaultWidth])
    /\ UNCHANGED <<storage, effectLog>>

clearPersistedWidth ==
    /\ queue([op |-> "removeItem", arg |-> 0])
    /\ UNCHANGED <<storage, effectLog>>

\* variant: only an undefined width falls back to the default
getCurrentWidthUnlessUndefined ==
    IF stateWidth.kind # "undefined" THEN stateWidth ELSE Num(defaultWidth)

getCurrentWidth == IF Truthy(stateWidth) THEN stateWidth ELSE Num(defaultWidth)

\* constructor body: state = { width: getPersistedWidth() }
Construct ==
    /\ ~constructed
    /\ constructed' = TRUE
    /\ stateWidth' = getPersistedWidth
    /\ readLog' = Append(readLog, [pending |-> (timers # {}), got |-> storage])
    /\ lastEvent' = "construct"
    /\ UNCHANGED <<storage, startX, startWidth, listening, timers, now,
                   queueLog, execLog, effectLog, lastNewWidth, dragging>>

\* a listener: the event type and the function registered for it
Listener(type, callback) == [type |-> type, callback |-> callback]

\* this.handleDragMove and this.handleDragStop: one function each per Sidebar
DragListeners == {Listener("mousemove", "handleDragMove"),
                  Listener("mouseup", "handleDragStop")}

\* is a listener for events of this type registered
Heard(type) == \E l \in listening : l.type = type

\* document.addEventListener: a pair already registered is not added again
handleDragStart(clientX) ==
    /\ startX' = Num(clientX)
    /\ startWidth' = IF Truthy(getCurrentWidth) THEN getCurrentWidth ELSE Null
    /\ listening' = listening \cup DragListeners
    /\ UNCHANGED <<stateWidth, storage, timers, queueLog, effectLog, readLog>>

\* startWidth + deltaX, where a null startWidth counts as 0
newWidthOf(clientX) ==
    LET deltaX == clientX - startX.n
    IN  (IF startWidth.kind = "number" THEN startWidth.n ELSE 0) + deltaX

\* variant: the width is held above the minimum only
newWidthClampedOfNoMaximum(clientX) ==
    Max(minimumWidth, newWidthOf(clientX))

newWidthClampedOf(clientX) ==
    Max(minimumWidth, Min(maximumWidth, newWidthOf(clientX)))

handleDragMove(clientX) ==
    /\ stateWidth' = Num(newWidthClampedOf(clientX))
    /\ setPersistedWidth(newWidthClampedOf(clientX))
    /\ UNCHANGED <<startX, startWidth, listening, readLog>>

\* variant: only the mouseup listener is removed
handleDragStopKeepsMoveListener ==
    /\ listening' = listening \ {Listener("mouseup", "handleDragStop")}
    /\ UNCHANGED <<stateWidth, startX, startWidth, storage, timers, queueLog,
                   effectLog, readLog>>

handleDragStop ==
    /\ listening' = listening \ DragListeners
    /\ UNCHANGED <<stateWidth, startX, startWidth, storage, timers, queueLog,
                   effectLog, readLog>>

\* variant: the key is removed in the handler itself, not by the scheduler
handleDoubleClickDirect ==
    /\ stateWidth' = Undefined
    /\ storage' = Absent
    /\ effectLog' = Append(effectLog, [by |-> "handler", at |-> now,
                                       calls |-> Len(queueLog)])
    /\ UNCHANGED <<timers, queueLog, startX, startWidth, listening, readLog>>

handleDoubleClick ==
    /\ stateWidth' = Undefined
    /\ clearPersistedWidth
    /\ UNCHANGED <<startX, startWidth, listening, readLog>>

----------------------------------------------------------------------------
(* Sidebar: the events that reach the handlers *)

\* mousedown on the resize handle
MouseDown ==
    /\ constructed
    /\ \E x \in ClientXs : handleDragStart(x)
    /\ lastEvent' = IF dragging THEN "dragRestart" ELSE "dragStart"
    /\ lastNewWidth' = Undefined
    /\ dragging' = TRUE
    /\ UNCHANGED <<constructed, now, execLog>>

\* mousemove on the document while handleDragMove is registered
MouseMove ==
    /\ constructed
    /\ Heard("mousemove")
    /\ Len(queueLog) < MaxQueueCalls
    /\ \E x \in ClientXs :
          /\ handleDragMove(x)
          /\ lastNewWidth' = Num(newWidthOf(x))
    /\ lastEvent' = "dragMove"
    /\ UNCHANGED <<constructed, now, execLog, dragging>>

\* mousemove on the document while no listener is registered: no handler runs
MouseMoveUnheard ==
    /\ constructed
    /\ ~Heard("mousemove")
    /\ lastEvent' = "mouseMoveUnheard"
    /\ lastNewWidth' = Undefined
    /\ UNCHANGED <<constructed, storage, stateWidth, startX, startWidth, listening,
                   timers, now, queueLog, execLog, effectLog, readLog, dragging>>

\* mouseup on the document while handleDragStop is registered
MouseUp ==
    /\ constructed
    /\ Heard("mouseup")
    /\ handleDragStop
    /\ lastEvent' = "dragStop"
    /\ lastNewWidth' = Undefined
    /\ dragging' = FALSE
    /\ UNCHANGED <<constructed, now, execLog>>

\* dblclick on the resize handle
DoubleClick ==
    /\ constructed
    /\ Len(queueLog) < MaxQueueCalls
    /\ handleDoubleClick
    /\ lastEvent' = "doubleClick"
    /\ lastNewWidth' = Undefined
    /\ UNCHANGED <<constructed, now, execLog, dragging>>

SidebarInit ==
    /\ constructed = FALSE
    /\ storage \in InitialStorage
    /\ stateWidth = Undefined
    /\ startX = Undefined
    /\ startWidth = Undefined
    /\ listening = {}
    /\ timers = {}
    /\ now = 0
    /\ queueLog = <<>>
    /\ execLog = <<>>
    /\ effectLog = <<>>
    /\ readLog = <<>>
    /\ lastEvent = "none"
    /\ lastNewWidth = Undefined
    /\ dragging = FALSE

----------------------------------------------------------------------------
(* PullProgressParser *)

Fraction(n, d) == [kind |-> "number", num |-> n, den |-> d]
NoValue == [kind |-> "undefined", num |-> 0, den |-> 1]
NoText == [kind |-> "undefined", s |-> ""]

\* the first position >= i of character c in str, or 0
RECURSIVE IndexOf(_, _, _)
IndexOf(str, c, i) ==
    IF i > Len(str) THEN 0
    ELSE IF CharAt(str, i) = c THEN i
    ELSE IndexOf(str, c, i + 1)

\* the number of digits of str that end at position j
RECURSIVE DigitRunBack(_, _)
DigitRunBack(str, j) ==
    IF j < 1 \/ ~IsDigit(CharAt(str, j)) THEN 0
    ELSE 1 + DigitRunBack(str, j - 1)

\* the known percentage format: "<label>: P% (a/b)", anything after it
ProgressMatch(line) ==
    LET pct == IndexOf(line, "%", 1)
        n == DigitRunBack(line, pct - 1)
        first == pct - n
        a == DigitRun(line, pct + 3)
        b == DigitRun(line, pct + 4 + a)
    IN  [matches |->
            /\ pct > 0
            /\ n >= 1
            /\ first >= 4
            /\ CharAt(line, first - 1) = " "
            /\ CharAt(line, first - 2) = ":"
            /\ Len(line) >= pct + 4 + a + b
            /\ CharAt(line, pct + 1) = " "
            /\ CharAt(line, pct + 2) = "("
            /\ a >= 1
            /\ CharAt(line, pct + 3 + a) = "/"
            /\ b >= 1
            /\ CharAt(line, pct + 4 + a + b) = ")",
         percent |-> IF pct > 0 /\ n >= 1 THEN DigitsValue(line, first, pct - 1) ELSE 0]

\* variant: a line that is not recognised yields a record without its text
parseDropsUnknown(line) ==
    LET m == ProgressMatch(line)
    IN  IF m.matches
        THEN [kind |-> "progress", text |-> NoText, details |-> [text |-> Str(line)],
              percent |-> Fraction(m.percent, 100)]
        ELSE [kind |-> "context", text |-> NoText, details |-> [text |-> NoText],
              percent |-> NoValue]

\* variant: the percentage is reported as printed, not as a fraction of 1
parsePercentUnscaled(line) ==
    LET m == ProgressMatch(line)
    IN  IF m.matches
        THEN [kind |-> "progress", text |-> NoText, details |-> [text |-> Str(line)],
              percent |-> Fraction(m.percent, 1)]
        ELSE [kind |-> "context", text |-> Str(line), details |-> [text |-> NoText],
              percent |-> NoValue]

\* parse(line): a Progress record for the percentage format, else a Context
\* record carrying the line
parse(line) ==
    LET m == ProgressMatch(line)
    IN  IF m.matches
        THEN [kind |-> "progress", text |-> NoText, details |-> [text |-> Str(line)],
              percent |-> Fraction(m.percent, 100)]
        ELSE [kind |-> "context", text |-> Str(line), details |-> [text |-> NoText],
              percent |-> NoValue]

----------------------------------------------------------------------------
(* pull *)

Remotes == {"origin", "upstream"}

\* lines `git pull --progress` writes to stderr
PullLines == {
    "remote: Counting objects: 10% (1/10)",
    "remote: Counting objects: 42, done.",
    "remote: some other informational text",
    "remote: Compressing objects: 100% (5/5), done.",
    "Receiving objects: 50% (50/100)",
    "Resolving deltas: 100% (10/10), done.",
    "From https://github.com/desktop/desktop" }

\* result.gitErrorDescription
NoGitError == [kind |-> "null", s |-> ""]
GitErrorDescriptions == {NoGitError, Str("Authentication failed")}

NotSettled == [kind |-> "pending", result |-> NoGitError,
               errorResult |-> NoGitError, errorArgs |-> <<>>]

titleOf(r) == "Pulling " \o r

\* variant: --progress is passed whether or not there is a callback
argsOfAlwaysProgress(cb, r) == <<"pull", "--progress", r>>

argsOf(cb, r) == IF cb THEN <<"pull", "--progress", r>> ELSE <<"pull", r>>

\* progressCallback({ kind, title, value: 0, remote })
InitialEvent(r) ==
    [kind |-> "pull", title |-> titleOf(r), description |-> NoText,
     value |-> Fraction(0, 1), remote |-> r]

\* variant: the description is always read from the record's own text
EventOfRecordText(progress, r) ==
    [kind |-> "pull", title |-> titleOf(r), description |-> progress.text,
     value |-> progress.percent, remote |-> r]

\* variant: an event of a context line reports the value 0
EventOfContextAtZero(progress, r) ==
    [kind |-> "pull", title |-> titleOf(r),
     description |-> IF progress.kind = "progress" THEN progress.details.text
                     ELSE progress.text,
     value |-> IF progress.kind = "progress" THEN progress.percent ELSE Fraction(0, 1),
     remote |-> r]

\* the progressCallback argument built from a parsed record
EventOf(progress, r) ==
    [kind |-> "pull", title |-> titleOf(r),
     description |-> IF progress.kind = "progress" THEN progress.details.text
                     ELSE progress.text,
     value |-> progress.percent,
     remote |-> r]

\* does the stderr handler return before calling progressCallback
Punted(progress) ==
    /\ progress.kind = "context"
    /\ ~startsWith(progress.text.s, "remote: Counting objects")

\* variant: no line is punted on
onDataNoFilter(line) ==
    events' = Append(events, EventOf(parse(line), remote))

\* variant: every context line is punted on, the counting ones too
onDataPuntAllContext(line) ==
    LET progress == parse(line)
    IN  IF progress.kind = "context"
        THEN events' = events
        ELSE events' = Append(events, EventOf(progress, remote))

\* variant: the newest event is put ahead of the earlier subprocess events
onDataNewestFirst(line) ==
    LET progress == parse(line)
    IN  IF Punted(progress)
        THEN events' = events
        ELSE events' = <<Head(events), EventOf(progress, remote)>> \o Tail(events)

\* byline(process.stderr).on('data', ...)
onData(line) ==
    LET progress == parse(line)
    IN  IF Punted(progress)
        THEN events' = events
        ELSE events' = Append(events, EventOf(progress, remote))

\* variant: the starting event is not reported
pullWithoutInitialEvent(cb, r) ==
    /\ pc = "idle"
    /\ hasCallback' = cb
    /\ remote' = r
    /\ events' = events
    /\ gitCalls' = Append(gitCalls, [args |-> argsOf(cb, r), eventsBefore |-> Len(events')])
    /\ pc' = "awaiting"
    /\ UNCHANGED <<stderrLines, handlerLog, outcome>>

\* pull(repository, account, remote, progressCallback?) up to its await
pull(cb, r) ==
    /\ pc = "idle"
    /\ hasCallback' = cb
    /\ remote' = r
    /\ events' = IF cb THEN Append(events, InitialEvent(r)) ELSE events
    /\ gitCalls' = Append(gitCalls, [args |-> argsOf(cb, r), eventsBefore |-> Len(events')])
    /\ pc' = "awaiting"
    /\ UNCHANGED <<stderrLines, handlerLog, outcome>>

PullCall == \E cb \in BOOLEAN, r \in Remotes : pull(cb, r)

\* the subprocess writes one line to stderr; it reaches the handler that
\* processCallback installed, if any
StderrLine ==
    /\ pc = "awaiting"
    /\ Len(stderrLines) < MaxLines
    /\ \E line \in PullLines :
          /\ stderrLines' = Append(stderrLines, line)
          /\ IF hasCallback THEN onData(line) ELSE events' = events
    /\ handlerLog' = Append(handlerLog, Len(events') - Len(events))
    /\ UNCHANGED <<pc, hasCallback, remote, gitCalls, outcome>>

\* variant: the error description of the result is not looked at
pullSettleSwallow(desc) ==
    /\ pc = "awaiting"
    /\ pc' = "settled"
    /\ outcome' = [kind |-> "resolved", result |-> desc,
                   errorResult |-> NoGitError, errorArgs |-> <<>>]
    /\ UNCHANGED <<hasCallback, remote, stderrLines, events, handlerLog, gitCalls>>

\* the awaited git() call returns `result`; lines 61-63
pullSettle(desc) ==
    /\ pc = "awaiting"
    /\ pc' = "settled"
    /\ outcome' = IF desc.kind # "null"
                  THEN [kind |-> "rejected", result |-> desc,
                        errorResult |-> desc, errorArgs |-> argsOf(hasCallback, remote)]
                  ELSE [kind |-> "resolved", result |-> desc,
                        errorResult |-> NoGitError, errorArgs |-> <<>>]
    /\ UNCHANGED <<hasCallback, remote, stderrLines, events, handlerLog, gitCalls>>

GitExit == \E desc \in GitErrorDescriptions : pullSettle(desc)

\* the caller starts the next pull
PullAgain ==
    /\ pc = "settled"
    /\ pc' = "idle"
    /\ hasCallback' = FALSE
    /\ remote' = "none"
    /\ stderrLines' = <<>>
    /\ events' = <<>>
    /\ handlerLog' = <<>>
    /\ gitCalls' = <<>>
    /\ outcome' = NotSettled

PullIdle ==
    /\ pc = "idle"
    /\ hasCallback = FALSE
    /\ remote = "none"
    /\ stderrLines = <<>>
    /\ events = <<>>
    /\ handlerLog = <<>>
    /\ gitCalls = <<>>
    /\ outcome = NotSettled

SidebarUnbuilt ==
    /\ SidebarInit
    /\ storage = Absent

----------------------------------------------------------------------------
(* PullProgressParser on single lines *)

\* the pieces a line is put together from
Labels == {"", "Counting objects", "remote: Counting objects", "Receiving objects"}
Separators == {": ", ":", " "}
Percentages == {"", "0", "7", "50", "100"}
Signs == {"%", ""}
Tails == {" (50/100)", " (50/100), done.", " (1/)", ", done.", ""}

LinePieces == [label : Labels, sep : Separators, pct : Percentages, sign : Signs,
               tail : Tails]

LineOf(p) == p.label \o p.sep \o p.pct \o p.sign \o p.tail

NoLine == [label |-> "", sep |-> "", pct |-> "", sign |-> "", tail |-> ""]
NotParsed == [kind |-> "none", text |-> NoText, details |-> [text |-> NoText],
              percent |-> NoValue]

ParserIdle ==
    /\ parseInput = NoLine
    /\ parseOutput = NotParsed

\* a line reaches the parser
ParseFeed ==
    /\ parseOutput = NotParsed
    /\ parseInput = NoLine
    /\ parseInput' \in LinePieces \ {NoLine}
    /\ UNCHANGED parseOutput

\* parser.parse(line)
ParseCall ==
    /\ parseOutput = NotParsed
    /\ parseInput # NoLine
    /\ parseOutput' = parse(LineOf(parseInput))
    /\ UNCHANGED parseInput

\* the record is used up; the parser waits for the next line
ParseDone ==
    /\ parseOutput # NotParsed
    /\ parseInput' = NoLine
    /\ parseOutput' = NotParsed

----------------------------------------------------------------------------
(* Specifications: the components share no state and are run apart *)

SidebarNext ==
    \/ Construct /\ UNCHANGED <<pullVars, parserVars>>
    \/ MouseDown /\ UNCHANGED <<pullVars, parserVars>>
    \/ MouseMove /\ UNCHANGED <<pullVars, parserVars>>
    \/ MouseMoveUnheard /\ UNCHANGED <<pullVars, parserVars>>
    \/ MouseUp /\ UNCHANGED <<pullVars, parserVars>>
    \/ DoubleClick /\ UNCHANGED <<pullVars, parserVars>>
    \/ TimerFire /\ UNCHANGED <<pullVars, parserVars>>
    \/ Tick /\ UNCHANGED <<pullVars, parserVars>>

\* the Sidebar alone, while no pull is made
SidebarStart == SidebarInit /\ PullIdle /\ ParserIdle

SidebarSpec == SidebarStart /\ [][SidebarNext]_vars

PullNext ==
    \/ PullCall /\ UNCHANGED <<sidebarVars, parserVars>>
    \/ StderrLine /\ UNCHANGED <<sidebarVars, parserVars>>
    \/ GitExit /\ UNCHANGED <<sidebarVars, parserVars>>
    \/ PullAgain /\ UNCHANGED <<sidebarVars, parserVars>>

\* pull alone, while no Sidebar is mounted
PullStart == PullIdle /\ SidebarUnbuilt /\ ParserIdle

PullSpec == PullStart /\ [][PullNext]_vars

ParseNext ==
    \/ ParseFeed /\ UNCHANGED <<sidebarVars, pullVars>>
    \/ ParseCall /\ UNCHANGED <<sidebarVars, pullVars>>
    \/ ParseDone /\ UNCHANGED <<sidebarVars, pullVars>>

\* the parser alone
ParseStart == ParserIdle /\ PullIdle /\ SidebarUnbuilt

ParseSpec == ParseStart /\ [][ParseNext]_vars

----------------------------------------------------------------------------
(* Sidebar: throttled persistence *)

Last(seq) == seq[Len(seq)]
ExecutedIds == {execLog[k].id : k \in DOMAIN execLog}

\* C1: of queue calls that fall inside one throttle window (each less than the
\* delay after the one before), only the action of the last call runs: a call
\* followed by another within the delay never runs, no call's action runs
\* twice, and once no timeout is pending the last call's action has run.
C1_OnlyLastQueuedActionRuns ==
    /\ \A i \in 1..(Len(queueLog) - 1) :
          queueLog[i + 1].at - queueLog[i].at < configWriteDelay => i \notin ExecutedIds
    /\ \A k, l \in DOMAIN execLog : execLog[k].id = execLog[l].id => k = l
    /\ (timers = {} /\ queueLog # <<>>) => Len(queueLog) \in ExecutedIds

\* three calls inside one window, of which only the third ran
C1_Witness ==
    /\ Len(queueLog) = 3
    /\ queueLog[2].at - queueLog[1].at < configWriteDelay
    /\ queueLog[3].at - queueLog[2].at < configWriteDelay
    /\ queueLog[3].at > queueLog[1].at
    /\ ExecutedIds = {3}

\* C2: every storage write or removal happens at least the delay after the
\* latest queue call, and each settled window (each timeout that ran) made
\* exactly one storage effect, for the call that was the latest.
C2_EffectOnlyAfterFullDelay ==
    /\ \A k \in DOMAIN effectLog :
          /\ effectLog[k].calls >= 1
          /\ effectLog[k].at - queueLog[effectLog[k].calls].at >= configWriteDelay
    /\ Len(effectLog) = Len(execLog)
    /\ \A k \in DOMAIN effectLog : effectLog[k].calls = execLog[k].id

\* two windows settled, each with one effect made exactly when the delay had
\* passed: the first window held two calls, the second one
C2_Witness ==
    /\ Len(effectLog) = 2
    /\ Len(queueLog) = 3
    /\ effectLog[1].calls = 2
    /\ effectLog[1].at - queueLog[2].at = configWriteDelay
    /\ effectLog[2].calls = 3
    /\ effectLog[2].at - queueLog[3].at = configWriteDelay

\* C9: the key is written or removed only in a step in which a timeout of
\* the scheduler runs its action, never in a step of an event handler; and the
\* key is read once, by the constructor, while no write is pending.
C9_KeyChangedOnlyByScheduler ==
    /\ [](/\ Len(readLog) <= 1
          /\ \A k \in DOMAIN readLog : ~readLog[k].pending
          /\ (readLog # <<>>) = constructed)
    /\ [][(storage' # storage \/ effectLog' # effectLog)
            => /\ Len(execLog') = Len(execLog) + 1
               /\ Len(effectLog') = Len(effectLog) + 1
               /\ Last(effectLog').by = "timer"
               /\ lastEvent' = lastEvent]_vars

\* a double click is pending after an earlier write took effect: the key is
\* still there
C9_Witness ==
    /\ lastEvent = "doubleClick"
    /\ timers # {}
    /\ Len(effectLog) = 1
    /\ storage # Absent
    /\ Len(readLog) = 1

\* C10: after a double click the current width is defaultWidth, and once its
\* timeout has run with no further event the key is absent from storage.
C10_DoubleClickResets ==
    lastEvent = "doubleClick" =>
        /\ getCurrentWidth = Num(defaultWidth)
        /\ timers = {} => storage = Absent

\* a width was dragged to 350 and persisted, then reset by a double click
\* whose removal has run
C10_Witness ==
    /\ lastEvent = "doubleClick"
    /\ timers = {}
    /\ Len(queueLog) = 2
    /\ Len(execLog) = 2
    /\ storage = Absent

----------------------------------------------------------------------------
(* pull: progress events *)

\* the stderr lines that added an event, in order
RECURSIVE KeptLines(_)
KeptLines(n) ==
    IF n = 0 THEN <<>>
    ELSE IF handlerLog[n] >= 1 THEN Append(KeptLines(n - 1), stderrLines[n])
    ELSE KeptLines(n - 1)

Kept == KeptLines(Len(stderrLines))

\* the events that came from stderr lines
Derived == IF hasCallback /\ events # <<>> THEN Tail(events) ELSE events

\* C3: in a pull with a progressCallback, exactly one event with value 0 and
\* no description is delivered, first, before git is started, so before every
\* event that comes from a stderr line.
C3_InitialEventFirst ==
    (pc # "idle" /\ hasCallback) =>
        /\ Len(events) >= 1
        /\ events[1].value = Fraction(0, 1)
        /\ events[1].description.kind = "undefined"
        /\ \A i \in 2..Len(events) : events[i].description.kind = "string"
        /\ Len(gitCalls) >= 1
        /\ gitCalls[1].eventsBefore = 1

\* the pull settled after the initial event and two events from stderr
C3_Witness ==
    /\ pc = "settled"
    /\ hasCallback
    /\ Len(events) = 3
    /\ Len(stderrLines) = 3

\* C4: a line that parses to a Context record whose text does not start with
\* 'remote: Counting objects' adds no event.
C4_OtherContextSuppressed ==
    \A i \in DOMAIN stderrLines :
        LET rec == parse(stderrLines[i])
        IN  /\ (rec.kind = "context"
                  /\ ~startsWith(rec.text.s, "remote: Counting objects"))
               => handlerLog[i] = 0
            /\ stderrLines[i] = "remote: some other informational text"
               => handlerLog[i] = 0

\* the informational line arrived during a pull that reports progress
C4_Witness ==
    /\ hasCallback
    /\ Len(stderrLines) = 2
    /\ stderrLines[1] = "remote: some other informational text"
    /\ stderrLines[2] = "Receiving objects: 50% (50/100)"
    /\ Len(events) = 2

\* C5: a line that parses to a Progress record, or to a Context record whose
\* text starts with 'remote: Counting objects', adds exactly one event.
C5_ProgressAndCountingEmitted ==
    hasCallback =>
        \A i \in DOMAIN stderrLines :
            LET rec == parse(stderrLines[i])
            IN  /\ (rec.kind = "progress"
                      \/ (rec.kind = "context"
                            /\ startsWith(rec.text.s, "remote: Counting objects")))
                   => handlerLog[i] = 1
                /\ stderrLines[i] = "remote: Counting objects: 10% (1/10)"
                   => handlerLog[i] = 1

\* a counting Context line and a Progress line each added an event
C5_Witness ==
    /\ hasCallback
    /\ Len(stderrLines) = 2
    /\ stderrLines[1] = "remote: Counting objects: 42, done."
    /\ parse(stderrLines[1]).kind = "context"
    /\ stderrLines[2] = "remote: Counting objects: 10% (1/10)"
    /\ Len(events) = 3

\* C6: the events that come from stderr are in the order of their lines: they
\* are the lines with the suppressed ones removed, each mapped to its event,
\* none moved and none repeated.
C6_StreamOrderPreserved ==
    /\ \A i \in DOMAIN handlerLog : handlerLog[i] \in {0, 1}
    /\ Len(Derived) = Len(Kept)
    /\ \A k \in DOMAIN Kept : Derived[k] = EventOf(parse(Kept[k]), remote)

\* two different lines were kept around a suppressed one
C6_Witness ==
    /\ hasCallback
    /\ Len(stderrLines) = 3
    /\ handlerLog = <<1, 0, 1>>
    /\ stderrLines[1] # stderrLines[3]

\* C7: an event that comes from a stderr line has kind 'pull', title
\* 'Pulling <remote>', the remote given to pull, the record's text as its
\* description and, for a Progress record, the record's percent as its value,
\* between 0 and 1.
C7_DerivedEventShape ==
    Len(Derived) = Len(Kept) =>
        \A k \in DOMAIN Kept :
            LET rec == parse(Kept[k])
                e == Derived[k]
            IN  /\ e.kind = "pull"
                /\ e.title = "Pulling " \o remote
                /\ e.remote = remote
                /\ rec.kind = "progress" =>
                      /\ e.description = rec.details.text
                      /\ e.value = rec.percent
                      /\ e.value.kind = "number"
                      /\ 0 <= e.value.num
                      /\ e.value.num <= e.value.den
                /\ rec.kind = "context" => e.description = rec.text

\* a pull of upstream reported a Progress line at one half and a Context line
C7_Witness ==
    /\ hasCallback
    /\ remote = "upstream"
    /\ Len(Derived) = 2
    /\ Derived[1].value = Fraction(50, 100)
    /\ Derived[1].title = "Pulling upstream"
    /\ Derived[2].description = Str("remote: Counting objects: 42, done.")

\* C8: git is invoked once per pull, with no retry; the pull rejects with a
\* GitError made of the result and the arguments exactly when the result has
\* a gitErrorDescription, and resolves otherwise, whatever lines were seen.
C8_GitErrorSurfaced ==
    /\ pc \in {"awaiting", "settled"} => Len(gitCalls) = 1
    /\ pc = "idle" => gitCalls = <<>>
    /\ pc = "settled" =>
          /\ outcome.kind \in {"resolved", "rejected"}
          /\ (outcome.kind = "rejected") = (outcome.result.kind # "null")
          /\ outcome.kind = "rejected" =>
                /\ outcome.errorResult = outcome.result
                /\ outcome.errorArgs = gitCalls[1].args
    /\ pc # "settled" => outcome.kind = "pending"

\* a pull was rejected after progress lines had been reported and suppressed
C8_Witness ==
    /\ pc = "settled"
    /\ outcome.kind = "rejected"
    /\ outcome.errorArgs = <<"pull", "--progress", "origin">>
    /\ handlerLog = <<1, 0>>

----------------------------------------------------------------------------
(* Sidebar: width *)

\* the queue calls made by drag moves so far
DragMovesQueued == {i \in DOMAIN queueLog : queueLog[i].op = "setItem"}

\* C11: a Sidebar constructed while no width is persisted under the key shows
\* defaultWidth, and goes on showing it as long as no drag move has run.
C11_DefaultWidthWhenNothingPersisted ==
    (constructed /\ readLog[1].got = Absent /\ DragMovesQueued = {}) =>
        /\ getCurrentWidth = Num(defaultWidth)
        /\ ~Truthy(stateWidth)

\* nothing was persisted; a drag was started and stopped without a move and
\* the handle was double clicked
C11_Witness ==
    /\ constructed
    /\ readLog[1].got = Absent
    /\ DragMovesQueued = {}
    /\ lastEvent = "dragStop"
    /\ Len(queueLog) = 1
    /\ startWidth = Num(defaultWidth)

\* C12: with the width props not supplied, dragging resizes the sidebar up to
\* 400 pixels and down to 150 pixels: a drag move leaves the width at newWidth
\* held between those two.
C12_DefaultDragRange ==
    lastEvent = "dragMove" =>
        stateWidth = Num(Max(documentedMinimumWidth,
                             Min(documentedMaximumWidth, lastNewWidth.n)))

\* C16: after a drag move the state width is a number between minimumWidth
\* and maximumWidth (newWidth itself when that lies between them), and the
\* width that move queued for persistence, and that is stored once its
\* timeout has run, is that same width.
C16_DragMoveClamps ==
    lastEvent = "dragMove" =>
        /\ stateWidth.kind = "number"
        /\ minimumWidth <= stateWidth.n
        /\ stateWidth.n <= maximumWidth
        /\ (minimumWidth <= lastNewWidth.n /\ lastNewWidth.n <= maximumWidth)
              => stateWidth.n = lastNewWidth.n
        /\ Last(queueLog).op = "setItem"
        /\ \A t \in timers :
              t.id = Len(queueLog) =>
                  t.action = [op |-> "setItem", arg |-> stateWidth.n]
        /\ Len(queueLog) \in ExecutedIds =>
              storage = Str(NumberToString(stateWidth.n))

\* a move beyond the maximum was cut to it, and the cut width is queued
C16_Witness ==
    /\ lastEvent = "dragMove"
    /\ lastNewWidth.n > maximumWidth
    /\ stateWidth = Num(maximumWidth)
    /\ \E t \in timers : t.action.arg = maximumWidth

\* C17: once drag moves and double clicks are over and the pending timeout
\* has run, storage agrees with the state: after a drag move the key holds the
\* decimal string of the state width (and reads back as that width), after a
\* double click the width is unset and the key is absent.
C17_StorageAgreesOnceSettled ==
    (timers = {} /\ queueLog # <<>>) =>
        IF Last(queueLog).op = "setItem"
        THEN /\ stateWidth.kind = "number"
             /\ storage = Str(NumberToString(stateWidth.n))
             /\ ParseInt(storage) = stateWidth
        ELSE /\ stateWidth = Undefined
             /\ storage = Absent
             /\ ParseInt(storage) = NaN

\* a width was persisted, then a drag move and a double click fell into one
\* window, which settled with the key removed
C17_Witness ==
    /\ timers = {}
    /\ Len(queueLog) = 3
    /\ queueLog[2].op = "setItem"
    /\ queueLog[3].op = "removeItem"
    /\ ExecutedIds = {1, 3}
    /\ storage = Absent

----------------------------------------------------------------------------
(* Sidebar: drag listeners *)

MoveListeners == {l \in listening : l.type = "mousemove"}

\* a step in which a mousemove event reached the document
MouseMoveStep ==
    /\ lastEvent' \in {"dragMove", "mouseMoveUnheard"}
    /\ now' = now
    /\ execLog' = execLog

\* C18: a mousemove listener is registered exactly from a drag start to the
\* following drag stop, and only once however often the drag is started; so a
\* mouse move in a drag runs handleDragMove once (one queue call), and a mouse
\* move outside a drag leaves the width, the pending timeout and the queue
\* calls as they were.
C18_MovesOnlyWhileDragging ==
    /\ [](/\ dragging = Heard("mousemove")
          /\ Cardinality(MoveListeners) <= 1
          /\ startX = Undefined => ~dragging)
    /\ [][MouseMoveStep =>
            IF dragging
            THEN /\ lastEvent' = "dragMove"
                 /\ Len(queueLog') = Len(queueLog) + 1
            ELSE /\ stateWidth' = stateWidth
                 /\ timers' = timers
                 /\ queueLog' = queueLog]_vars

\* a drag in which a move was applied was started again without a drag stop:
\* still one listener per event type
C18_Witness ==
    /\ lastEvent = "dragRestart"
    /\ dragging
    /\ Len(queueLog) = 1
    /\ Cardinality(listening) = 2

----------------------------------------------------------------------------
(* pull: values and arguments *)

HasValue(e) == e.value.kind = "number"
IsProgressLine(line) == parse(line).kind = "progress"

\* a/b <= c/d for fractions with positive denominators
FractionLeq(x, y) == x.num * y.den <= y.num * x.den

NonDecreasing(fractions) ==
    \A i, j \in DOMAIN fractions : i < j => FractionLeq(fractions[i], fractions[j])

\* the values of the events that carry one, in emission order
EmittedValues ==
    LET valued == SelectSeq(events, HasValue)
    IN  [i \in DOMAIN valued |-> valued[i].value]

\* the percents of the stderr lines that are Progress lines, in stream order
LinePercents ==
    LET measured == SelectSeq(stderrLines, IsProgressLine)
    IN  [i \in DOMAIN measured |-> parse(measured[i]).percent]

\* C13 as stated: the values of the events of one pull never decrease.
C13_ValuesNeverDecrease == NonDecreasing(EmittedValues)

\* C13, amended: the values of the events of one pull are the initial 0 and
\* then the percents of the Progress lines in stream order, unchanged; so they
\* never decrease as long as the percents on the lines do not.
C13_ValuesFollowLinePercents ==
    hasCallback =>
        /\ EmittedValues = (IF pc = "idle" THEN <<>> ELSE <<Fraction(0, 1)>>) \o LinePercents
        /\ NonDecreasing(LinePercents) => NonDecreasing(EmittedValues)

\* rising percents around a counting line that carries none
C13_Witness ==
    /\ hasCallback
    /\ stderrLines = <<"remote: Counting objects: 10% (1/10)",
                       "remote: Counting objects: 42, done.",
                       "Receiving objects: 50% (50/100)">>
    /\ Len(events) = 4
    /\ EmittedValues = <<Fraction(0, 1), Fraction(10, 100), Fraction(50, 100)>>

\* C19: a pull without a progressCallback emits no event at any point, no
\* stderr line adds one, and git is run with ['pull', remote]; a pull with a
\* progressCallback runs git with ['pull', '--progress', remote].
C19_ProgressOnlyWithCallback ==
    pc # "idle" =>
        /\ Len(gitCalls) = 1
        /\ ~hasCallback =>
              /\ events = <<>>
              /\ \A i \in DOMAIN handlerLog : handlerLog[i] = 0
              /\ gitCalls[1].args = <<"pull", remote>>
              /\ gitCalls[1].eventsBefore = 0
        /\ hasCallback =>
              gitCalls[1].args = <<"pull", "--progress", remote>>

\* a pull without a callback settled after git wrote progress lines
C19_Witness ==
    /\ pc = "settled"
    /\ ~hasCallback
    /\ Len(stderrLines) = 3
    /\ IsProgressLine(stderrLines[1])
    /\ events = <<>>
    /\ gitCalls[1].args = <<"pull", "origin">>

----------------------------------------------------------------------------
(* PullProgressParser: records *)

\* is the line made of a label, ": ", a percentage, "%" and " (a/b)"
InPercentFormat(p) ==
    /\ p.label # ""
    /\ p.sep = ": "
    /\ p.pct # ""
    /\ p.sign = "%"
    /\ p.tail \in {" (50/100)", " (50/100), done."}

\* the number a percentage piece spells
PercentageValue(pct) ==
    CASE pct = "0" -> 0
      [] pct = "7" -> 7
      [] pct = "50" -> 50
      [] pct = "100" -> 100

Parsed == parseOutput # NotParsed

\* C14: parse returns a record for every line, and for a line that is not in
\* a known progress format a Context record whose text is the line, unchanged.
C14_ParseFailsSoft ==
    Parsed =>
        /\ parseOutput.kind \in {"progress", "context"}
        /\ ~InPercentFormat(parseInput) =>
              /\ parseOutput.kind = "context"
              /\ parseOutput.text = Str(LineOf(parseInput))

\* a line that lacks the closing count was returned as Context
C14_Witness ==
    /\ Parsed
    /\ LineOf(parseInput) = "Counting objects: 50% (1/)"
    /\ parseOutput.kind = "context"

\* C15: for a line '<label>: P% (a/b)' parse returns a Progress record whose
\* percent is P/100, between 0 and 1; 'Counting objects: 50% (50/100)' gives
\* one half.
C15_PercentIsHundredths ==
    Parsed =>
        /\ InPercentFormat(parseInput) =>
              /\ parseOutput.kind = "progress"
              /\ parseOutput.percent.kind = "number"
              /\ parseOutput.percent.den > 0
              /\ parseOutput.percent.num * 100
                    = PercentageValue(parseInput.pct) * parseOutput.percent.den
              /\ 0 <= parseOutput.percent.num
              /\ parseOutput.percent.num <= parseOutput.percent.den
        /\ LineOf(parseInput) = "Counting objects: 50% (50/100)" =>
              /\ parseOutput.kind = "progress"
              /\ parseOutput.percent.num * 2 = parseOutput.percent.den

\* the line of the example was parsed
C15_Witness ==
    /\ Parsed
    /\ LineOf(parseInput) = "Counting objects: 50% (50/100)"
    /\ parseOutput.kind = "progress"
    /\ parseOutput.percent = Fraction(50, 100)

====
